---- MODULE Spec2Model ----
(***************************************************************************)
(* Model of nova/virt/libvirt/firewall.py: the iptables security-group     *)
(* driver (IptablesFirewallDriver) and its rule compiler (instance_rules). *)
(*                                                                         *)
(* An iptables rule string is modelled as the sequence of its              *)
(* space-separated words, so ' '.join(args) is concatenation of word       *)
(* sequences and '%s' formatting of a number is ToString.                  *)
(***************************************************************************)
EXTENDS Integers, Sequences, FiniteSets, TLC

VARIABLES
    use_ipv6,                   \* FLAGS.use_ipv6
    allow_project_net_traffic,  \* FLAGS.allow_project_net_traffic
    instances,                  \* keys of IptablesFirewallDriver.instances
    iptables,                   \* staged tables: iptables.ipv4 / .ipv6 ['filter']
    committed,                  \* the tables as of the last iptables.apply()
    lock,                       \* holder of the 'iptables' lock, 0 when free
    th,                         \* per greenthread: the call in progress
    sg_version,                 \* data store: version of each group's rules
    ncalls,                     \* driver calls started so far
    published,                  \* tracked instances a commit published whole
    cin,                        \* arguments of a direct instance_rules call
    cout,                       \* its return value, once called
    filters,                    \* libvirt: the defined nwfilter objects, by name
    static_filters_configured,  \* NWFilterFirewall.static_filters_configured
    call                        \* per greenthread: outcome of its nwfilter call

-----------------------------------------------------------------------------
(* Bounds of the model *)

MaxGroups == 2      \* security groups attached to one instance
MaxRules == 3       \* rules stored over all groups of one instance
MaxNets == 2        \* network attachments of one instance
MaxInstances == 2   \* instances on the host
MaxThreads == 2     \* concurrent callers of the driver
MaxChanges == 1     \* rule changes in the data store in one behaviour
MaxCalls == 3       \* driver calls started in one behaviour
MaxFilterCalls == 2 \* of which calls that reach the nwfilter driver

None == "None"

-----------------------------------------------------------------------------
(* Data-store records *)

\* A network of network_info: gateway, cidr, gateway_v6, cidr_v6.
Network(k) ==
    [gateway    |-> "10.0." \o ToString(k) \o ".1",
     cidr       |-> "10.0." \o ToString(k) \o ".0/24",
     gateway_v6 |-> "fd00:" \o ToString(k) \o "::1",
     cidr_v6    |-> "fd00:" \o ToString(k) \o "::/64"]

\* A mapping of network_info: mac, ips, ip6s.  The first one has two v4
\* addresses.
Mapping(k) ==
    [mac  |-> "02:16:3e:00:00:0" \o ToString(k),
     ips  |-> IF k = 1
              THEN <<"10.0.1.5", "10.0.1.6">>
              ELSE <<"10.0." \o ToString(k) \o ".5">>,
     ip6s |-> <<"fd00:" \o ToString(k) \o "::5">>]

\* network_info with the attachments first..last.
Attachments(first, last) ==
    [k \in 1..(last - first + 1) |->
        [network |-> Network(first + k - 1), mapping |-> Mapping(first + k - 1)]]

CidrV4 == "0.0.0.0/0"
CidrV6 == "::/0"

\* netutils.get_ip_version: the IP version of a CIDR.
get_ip_version(cidr) == IF cidr = CidrV6 THEN 6 ELSE 4

PortValues == {-1, 0, 8, 9}

\* Security-group rules that carry a CIDR.
CidrRules ==
    [protocol : {"tcp", "udp", "icmp"}, cidr : {CidrV4, CidrV6},
     from_port : PortValues, to_port : PortValues]

\* Rules without a CIDR (group-to-group placeholders).
NoCidrRules ==
    [protocol : {None, "tcp"}, cidr : {None},
     from_port : {-1, 8}, to_port : {-1}]

Rules == CidrRules \cup NoCidrRules

-----------------------------------------------------------------------------
(* Rule Compiler: IptablesFirewallDriver.instance_rules *)

FallbackJump == <<"-j", "$sg-fallback">>
DropInvalid == <<"-m", "state", "--state", "INVALID", "-j", "DROP">>
AcceptEstablished ==
    <<"-m", "state", "--state", "ESTABLISHED,RELATED", "-j", "ACCEPT">>

dhcp_rule(dhcp_server) ==
    <<"-s", dhcp_server, "-p", "udp", "--sport", "67", "--dport", "68",
      "-j", "ACCEPT">>

project_rule(cidr) == <<"-s", cidr, "-j", "ACCEPT">>

ra_rule(gateway_v6) ==
    <<"-s", gateway_v6 \o "/128", "-p", "icmpv6", "-j", "ACCEPT">>

\* The port / icmp-type words of one rule (lines 583-607).
rule_ports_AlwaysRange(rule, version) ==
    IF rule.protocol \in {"udp", "tcp"}
    THEN <<"-m", "multiport", "--dports",
           ToString(rule.from_port) \o ":" \o ToString(rule.to_port)>>
    ELSE <<>>

rule_ports_CodeWithoutType(rule, version) ==
    IF rule.protocol \in {"udp", "tcp"}
    THEN IF rule.from_port = rule.to_port
         THEN <<"--dport", ToString(rule.from_port)>>
         ELSE <<"-m", "multiport", "--dports",
                ToString(rule.from_port) \o ":" \o ToString(rule.to_port)>>
    ELSE IF rule.protocol = "icmp"
    THEN LET icmp_type_arg ==
                 IF rule.to_port # -1
                 THEN ToString(rule.from_port) \o "/" \o ToString(rule.to_port)
                 ELSE IF rule.from_port = -1 THEN None
                 ELSE ToString(rule.from_port)
         IN  IF icmp_type_arg # None
             THEN IF version = 4
                  THEN <<"-m", "icmp", "--icmp-type", icmp_type_arg>>
                  ELSE <<"-m", "icmp6", "--icmpv6-type", icmp_type_arg>>
             ELSE <<>>
    ELSE <<>>

rule_ports(rule, version) ==
    IF rule.protocol \in {"udp", "tcp"}
    THEN IF rule.from_port = rule.to_port
         THEN <<"--dport", ToString(rule.from_port)>>
         ELSE <<"-m", "multiport", "--dports",
                ToString(rule.from_port) \o ":" \o ToString(rule.to_port)>>
    ELSE IF rule.protocol = "icmp"
    THEN LET icmp_type == rule.from_port
             icmp_code == rule.to_port
             icmp_type_arg ==
                 IF icmp_type = -1 THEN None
                 ELSE IF icmp_code # -1
                 THEN ToString(icmp_type) \o "/" \o ToString(icmp_code)
                 ELSE ToString(icmp_type)
         IN  IF icmp_type_arg # None
             THEN IF version = 4
                  THEN <<"-m", "icmp", "--icmp-type", icmp_type_arg>>
                  ELSE IF version = 6
                  THEN <<"-m", "icmp6", "--icmpv6-type", icmp_type_arg>>
                  ELSE <<>>
             ELSE <<>>
    ELSE <<>>

\* The whole directive of one rule that has a CIDR (lines 571-610).
rule_directive(rule) ==
    LET version == get_ip_version(rule.cidr)
        protocol == IF version = 6 /\ rule.protocol = "icmp"
                    THEN "icmpv6" ELSE rule.protocol
        args == <<"-p", protocol, "-s", rule.cidr>>
    IN  args \o rule_ports(rule, version) \o <<"-j", "ACCEPT">>

\* The loop over one group's rules (lines 563-610); acc is the pair of
\* lists being built.
RECURSIVE group_rules_AllToV4(_, _)
group_rules_AllToV4(rules, acc) ==
    IF rules = <<>> THEN acc
    ELSE LET rule == Head(rules)
         IN  IF rule.cidr = None
             THEN group_rules_AllToV4(Tail(rules), acc)
             ELSE group_rules_AllToV4(Tail(rules),
                      [acc EXCEPT !.v4 = Append(@, rule_directive(rule))])

RECURSIVE group_rules(_, _)
group_rules(rules, acc) ==
    IF rules = <<>> THEN acc
    ELSE LET rule == Head(rules)
         IN  IF rule.cidr = None
             THEN group_rules(Tail(rules), acc)
             ELSE IF get_ip_version(rule.cidr) = 4
             THEN group_rules(Tail(rules),
                      [acc EXCEPT !.v4 = Append(@, rule_directive(rule))])
             ELSE group_rules(Tail(rules),
                      [acc EXCEPT !.v6 = Append(@, rule_directive(rule))])

\* The loop over the instance's groups (lines 559-610); sg_rules is the
\* sequence of rule lists the data store returned, one per group.
RECURSIVE security_groups_rules(_, _)
security_groups_rules(sg_rules, acc) ==
    IF sg_rules = <<>> THEN acc
    ELSE security_groups_rules(Tail(sg_rules), group_rules(Head(sg_rules), acc))

\* The fixed prefix of both lists (lines 513-553).
fixed_prefix(network_info) ==
    LET n == Len(network_info)
        dhcp == [k \in 1..n |-> dhcp_rule(network_info[k].network.gateway)]
        proj == IF allow_project_net_traffic
                THEN [k \in 1..n |-> project_rule(network_info[k].network.cidr)]
                ELSE <<>>
        ra   == IF use_ipv6
                THEN [k \in 1..n |-> ra_rule(network_info[k].network.gateway_v6)]
                ELSE <<>>
        proj6 == IF use_ipv6 /\ allow_project_net_traffic
                 THEN [k \in 1..n |->
                          project_rule(network_info[k].network.cidr_v6)]
                 ELSE <<>>
    IN  [v4 |-> <<DropInvalid, AcceptEstablished>> \o dhcp \o proj,
         v6 |-> <<DropInvalid, AcceptEstablished>> \o ra \o proj6]

instance_rules_FallbackOnlyWithRules(network_info, sg_rules) ==
    LET body == security_groups_rules(sg_rules, fixed_prefix(network_info))
        pre  == fixed_prefix(network_info)
    IN  [v4 |-> IF body.v4 = pre.v4 THEN body.v4
                ELSE Append(body.v4, FallbackJump),
         v6 |-> IF body.v6 = pre.v6 THEN body.v6
                ELSE Append(body.v6, FallbackJump)]

instance_rules_ProjectAfterRules(network_info, sg_rules) ==
    LET n == Len(network_info)
        dhcp == [k \in 1..n |-> dhcp_rule(network_info[k].network.gateway)]
        proj == IF allow_project_net_traffic
                THEN [k \in 1..n |-> project_rule(network_info[k].network.cidr)]
                ELSE <<>>
        start == [v4 |-> <<DropInvalid, AcceptEstablished>> \o dhcp,
                  v6 |-> <<DropInvalid, AcceptEstablished>>]
        body == security_groups_rules(sg_rules, start)
    IN  [v4 |-> Append(body.v4 \o proj, FallbackJump),
         v6 |-> Append(body.v6, FallbackJump)]

\* instance_rules(instance, network_info), given what its data-store reads
\* returned.
instance_rules(network_info, sg_rules) ==
    LET body == security_groups_rules(sg_rules, fixed_prefix(network_info))
    IN  [v4 |-> Append(body.v4, FallbackJump),
         v6 |-> Append(body.v6, FallbackJump)]

-----------------------------------------------------------------------------
(* Data store and network info of the instances on the host *)

InstanceIds == 1..MaxInstances
GroupIds == 1..MaxInstances
Threads == 1..MaxThreads

\* netutils.get_network_info(instance): instance i has one attachment, to
\* network i; instance 0, which only the nwfilter driver is given, has two.
get_network_info(i) ==
    IF i = 0 THEN Attachments(MaxInstances + 1, MaxInstances + 2)
    ELSE Attachments(i, i)

\* db.security_group_get_by_instance(ctxt, instance['id']): instance i is in
\* the groups 1..i.
security_group_get_by_instance(i) == [k \in 1..i |-> k]

\* The port a rule of group g has in version v of the group's rule set.
GroupPort(g, v) == 10 * g + v

\* The rules of group g in version v: one v4 and one v6 rule.
GroupRulesAt(g, v) ==
    <<[protocol |-> "tcp", cidr |-> CidrV4,
       from_port |-> GroupPort(g, v), to_port |-> GroupPort(g, v)],
      [protocol |-> "udp", cidr |-> CidrV6,
       from_port |-> GroupPort(g, v), to_port |-> GroupPort(g, v)]>>

\* db.security_group_rule_get_by_security_group(ctxt, security_group['id'])
security_group_rule_get_by_security_group(g) == GroupRulesAt(g, sg_version[g])

-----------------------------------------------------------------------------
(* Chain-table capability: linux_net.iptables_manager *)

\* A table holds a set of chain names and the list of its rules, each rule
\* in a chain.  'local' is a chain of every table.
EmptyTable == [chains |-> {"local"}, rules |-> <<>>]

JumpsTo(rule, name) ==
    \E k \in 1..(Len(rule) - 1) : rule[k] = "-j" /\ rule[k + 1] = "$" \o name

add_chain(table, name) == [table EXCEPT !.chains = @ \cup {name}]

\* Removes the chain, its rules and the rules of other chains that jump to it;
\* a chain that does not exist is left alone.
remove_chain(table, name) ==
    IF name \notin table.chains THEN table
    ELSE [chains |-> table.chains \ {name},
          rules  |-> SelectSeq(table.rules,
                        LAMBDA r : r.chain # name /\ ~JumpsTo(r.rule, name))]

add_rule(table, chain, rule) ==
    [table EXCEPT !.rules = Append(@, [chain |-> chain, rule |-> rule])]

RECURSIVE add_rules(_, _, _)
add_rules(table, chain, rules) ==
    IF rules = <<>> THEN table
    ELSE add_rules(add_rule(table, chain, Head(rules)), chain, Tail(rules))

\* The rules of one chain, in order.
ChainRules(table, chain) ==
    LET own == SelectSeq(table.rules, LAMBDA r : r.chain = chain)
    IN  [k \in 1..Len(own) |-> own[k].rule]

-----------------------------------------------------------------------------
(* Chain-Tree backend: IptablesFirewallDriver *)

_instance_chain_name(i) == "inst-" \o ToString(i)

_create_filter(ips, chain_name) ==
    [k \in 1..Len(ips) |-> <<"-d", ips[k], "-j", "$" \o chain_name>>]

RECURSIVE AllIps(_, _)
AllIps(network_info, field) ==
    IF network_info = <<>> THEN <<>>
    ELSE Head(network_info).mapping[field] \o AllIps(Tail(network_info), field)

_filters_for_instance(chain_name, network_info) ==
    [v4 |-> _create_filter(AllIps(network_info, "ips"), chain_name),
     v6 |-> IF use_ipv6
            THEN _create_filter(AllIps(network_info, "ip6s"), chain_name)
            ELSE <<>>]

\* _add_filters adding the v6 rules whatever FLAGS.use_ipv6 says.
_add_filters_V6Always(ipt, chain_name, ipv4_rules, ipv6_rules) ==
    LET bad4 == ipv4_rules # <<>> /\ chain_name \notin ipt.ipv4.chains
    IN  [ipt |-> [ipv4 |-> IF bad4 THEN ipt.ipv4
                           ELSE add_rules(ipt.ipv4, chain_name, ipv4_rules),
                  ipv6 |-> IF bad4 THEN ipt.ipv6
                           ELSE add_rules(ipt.ipv6, chain_name, ipv6_rules)],
         raised |-> bad4]

\* _add_filters: the tables afterwards, and whether add_rule raised on a chain
\* the table does not know.
_add_filters(ipt, chain_name, ipv4_rules, ipv6_rules) ==
    LET bad4 == ipv4_rules # <<>> /\ chain_name \notin ipt.ipv4.chains
        bad6 == /\ use_ipv6
                /\ ipv6_rules # <<>>
                /\ chain_name \notin ipt.ipv6.chains
    IN  [ipt |-> [ipv4 |-> IF bad4 THEN ipt.ipv4
                           ELSE add_rules(ipt.ipv4, chain_name, ipv4_rules),
                  ipv6 |-> IF bad4 \/ bad6 \/ ~use_ipv6 THEN ipt.ipv6
                           ELSE add_rules(ipt.ipv6, chain_name, ipv6_rules)],
         raised |-> bad4 \/ bad6]

\* add_filters_for_instance up to its call of instance_rules (lines 491-497).
add_filters_for_instance_begin(ipt, i, network_info) ==
    LET chain_name == _instance_chain_name(i)
        ipt1 == [ipv4 |-> add_chain(ipt.ipv4, chain_name),
                 ipv6 |-> IF use_ipv6 THEN add_chain(ipt.ipv6, chain_name)
                          ELSE ipt.ipv6]
        jumps == _filters_for_instance(chain_name, network_info)
    IN  _add_filters(ipt1, "local", jumps.v4, jumps.v6).ipt

\* add_filters_for_instance from the return of instance_rules on (lines
\* 498-499); sg_rules is what the data store returned for the groups.
add_filters_for_instance_end(ipt, i, network_info, sg_rules) ==
    LET rules == instance_rules(network_info, sg_rules)
    IN  _add_filters(ipt, _instance_chain_name(i), rules.v4, rules.v6)

\* remove_filters_for_instance leaving the v6 chain behind.
remove_filters_for_instance_V4Only(ipt, i) ==
    [ipv4 |-> remove_chain(ipt.ipv4, _instance_chain_name(i)),
     ipv6 |-> ipt.ipv6]

\* remove_filters_for_instance taking the fallback chain along.
remove_filters_for_instance_AndFallback(ipt, i) ==
    LET chain_name == _instance_chain_name(i)
    IN  [ipv4 |-> remove_chain(remove_chain(ipt.ipv4, chain_name),
                               "sg-fallback"),
         ipv6 |-> IF use_ipv6 THEN remove_chain(ipt.ipv6, chain_name)
                  ELSE ipt.ipv6]

remove_filters_for_instance(ipt, i) ==
    LET chain_name == _instance_chain_name(i)
    IN  [ipv4 |-> remove_chain(ipt.ipv4, chain_name),
         ipv6 |-> IF use_ipv6 THEN remove_chain(ipt.ipv6, chain_name)
                  ELSE ipt.ipv6]

\* IptablesFirewallDriver.__init__: the fallback chain of both tables.
InitialTables ==
    LET fallback(table) ==
            add_rule(add_chain(table, "sg-fallback"), "sg-fallback",
                     <<"-j", "DROP">>)
    IN  [ipv4 |-> fallback(EmptyTable), ipv6 |-> fallback(EmptyTable)]

\* A greenthread: pc is where its call is suspended ("idle": no call),
\* op the call, and the locals of the call.
Idle ==
    [pc |-> "idle", op |-> "none", inst |-> 0, network_info |-> <<>>,
     todo |-> <<>>, groups |-> <<>>, got |-> <<>>]

RECURSIVE SortedSeq(_)
SortedSeq(S) ==
    IF S = {} THEN <<>>
    ELSE LET m == CHOOSE x \in S : \A y \in S : x <= y
         IN  <<m>> \o SortedSeq(S \ {m})

\* The chain of instance i is whole: present, not empty and ending in the
\* jump to the fallback chain.
Complete(table, i) ==
    LET rules == ChainRules(table, _instance_chain_name(i))
    IN  /\ _instance_chain_name(i) \in table.chains
        /\ rules # <<>>
        /\ rules[Len(rules)] = FallbackJump

vars ==
    <<use_ipv6, allow_project_net_traffic, instances, iptables, committed,
      lock, th, sg_version, ncalls, published, cin, cout, filters,
      static_filters_configured, call>>

compilerVars == <<cin, cout>>
flagVars == <<use_ipv6, allow_project_net_traffic>>
nwfilterVars == <<filters, static_filters_configured, call>>

\* prepare_instance_filter calling iptables.apply() right after the jump
\* rules, before instance_rules has filled the chain.
prepare_instance_filter_CommitsEarly(t, i) ==
    /\ th[t].pc = "idle"
    /\ ncalls < MaxCalls
    /\ ncalls' = ncalls + 1
    /\ LET network_info == get_network_info(i)
       IN  /\ instances' = instances \cup {i}
           /\ iptables' = add_filters_for_instance_begin(iptables, i, network_info)
           /\ committed' = iptables'
           /\ th' = [th EXCEPT ![t] =
                        [pc |-> "rules", op |-> "prepare", inst |-> i,
                         network_info |-> network_info, todo |-> <<>>,
                         groups |-> security_group_get_by_instance(i),
                         got |-> <<>>]]
    /\ UNCHANGED <<lock, sg_version, published, compilerVars, flagVars,
                   nwfilterVars>>

\* prepare_instance_filter(instance) up to the first read of a group's rules:
\* reads network_info, records the instance, adds its chain and its jumps.
prepare_instance_filter(t, i) ==
    /\ th[t].pc = "idle"
    /\ ncalls < MaxCalls
    /\ ncalls' = ncalls + 1
    /\ LET network_info == get_network_info(i)
       IN  /\ instances' = instances \cup {i}
           /\ iptables' = add_filters_for_instance_begin(iptables, i, network_info)
           /\ th' = [th EXCEPT ![t] =
                        [pc |-> "rules", op |-> "prepare", inst |-> i,
                         network_info |-> network_info, todo |-> <<>>,
                         groups |-> security_group_get_by_instance(i),
                         got |-> <<>>]]
    /\ UNCHANGED <<committed, lock, sg_version, published, compilerVars,
                   flagVars, nwfilterVars>>

\* The for loop of do_refresh_security_group_rules from its next instance on,
\* up to the next data-store read; at the end of the loop the lock is released
\* and the caller is about to call iptables.apply().
refresh_loop(t, ipt, todo, network_info) ==
    IF todo = <<>>
    THEN [ipt |-> ipt, lock |-> 0,
          th |-> [Idle EXCEPT !.pc = "apply", !.op = "refresh"]]
    ELSE LET i == Head(todo)
             ipt1 == remove_filters_for_instance(ipt, i)
         IN  IF network_info = <<>>
             THEN [ipt |-> ipt1, lock |-> t,
                   th |-> [pc |-> "netinfo", op |-> "refresh", inst |-> i,
                           network_info |-> <<>>, todo |-> Tail(todo),
                           groups |-> <<>>, got |-> <<>>]]
             ELSE [ipt |-> add_filters_for_instance_begin(ipt1, i, network_info),
                   lock |-> t,
                   th |-> [pc |-> "rules", op |-> "refresh", inst |-> i,
                           network_info |-> network_info, todo |-> Tail(todo),
                           groups |-> security_group_get_by_instance(i),
                           got |-> <<>>]]

\* @utils.synchronized('iptables'): the caller enters when the lock is free.
synchronized_NoLock(t) == TRUE

synchronized(t) == lock = 0

\* refresh_security_group_rules(security_group): takes the lock and runs the
\* loop over a snapshot of self.instances.values() up to its first read.
refresh_security_group_rules(t) ==
    /\ th[t].pc = "idle"
    /\ ncalls < MaxCalls
    /\ synchronized(t)
    /\ ncalls' = ncalls + 1
    /\ LET r == refresh_loop(t, iptables, SortedSeq(instances), <<>>)
       IN  /\ iptables' = r.ipt
           /\ lock' = r.lock
           /\ th' = [th EXCEPT ![t] = r.th]
    /\ UNCHANGED <<instances, committed, sg_version, published, compilerVars,
                   flagVars, nwfilterVars>>

\* do_refresh_security_group_rules resumed at netutils.get_network_info:
\* network_info is set once and kept for the rest of the loop.
refresh_get_network_info(t) ==
    /\ th[t].pc = "netinfo"
    /\ LET network_info == get_network_info(th[t].inst)
       IN  /\ iptables' = add_filters_for_instance_begin(iptables, th[t].inst,
                                                         network_info)
           /\ th' = [th EXCEPT ![t].pc = "rules",
                               ![t].network_info = network_info,
                               ![t].groups =
                                   security_group_get_by_instance(th[t].inst)]
    /\ UNCHANGED <<instances, committed, lock, sg_version, ncalls, published,
                   compilerVars, flagVars, nwfilterVars>>

\* instance_rules resumed at the read of the next group's rules; after the
\* last group the compiled rules go into the instance's chain, and the call
\* goes on to its next suspension.  An exception of add_rule ends the call
\* (and releases the lock of a refresh).
read_group_rules(t) ==
    /\ th[t].pc = "rules"
    /\ LET me == th[t]
           got == Append(me.got,
                         security_group_rule_get_by_security_group(Head(me.groups)))
           added == add_filters_for_instance_end(iptables, me.inst,
                                                 me.network_info, got)
           next == refresh_loop(t, added.ipt, me.todo, me.network_info)
       IN  IF Tail(me.groups) # <<>>
           THEN /\ th' = [th EXCEPT ![t].groups = Tail(me.groups), ![t].got = got]
                /\ UNCHANGED <<iptables, lock>>
           ELSE IF added.raised
           THEN /\ th' = [th EXCEPT ![t] = Idle]
                /\ iptables' = added.ipt
                /\ lock' = IF me.op = "refresh" THEN 0 ELSE lock
           ELSE IF me.op = "prepare"
           THEN /\ th' = [th EXCEPT ![t] = [Idle EXCEPT !.pc = "apply",
                                                        !.op = "prepare",
                                                        !.inst = me.inst]]
                /\ iptables' = added.ipt
                /\ UNCHANGED lock
           ELSE /\ th' = [th EXCEPT ![t] = next.th]
                /\ iptables' = next.ipt
                /\ lock' = next.lock
    /\ UNCHANGED <<instances, committed, sg_version, ncalls, published,
                   compilerVars, flagVars, nwfilterVars>>

\* iptables.apply(): the staged tables become the committed ones.
apply(t) ==
    /\ th[t].pc = "apply"
    /\ committed' = iptables
    /\ published' = published \cup {i \in instances : Complete(iptables.ipv4, i)}
    /\ th' = [th EXCEPT ![t] = Idle]
    /\ UNCHANGED <<instances, iptables, lock, sg_version, ncalls, compilerVars,
                   flagVars, nwfilterVars>>

\* instance_rules resumed at a data-store read that raises: nothing catches
\* the exception on the way out of add_filters_for_instance and of the
\* driver call, so the call ends there (the decorator releases the lock of a
\* refresh) with everything staged so far left in place.
read_group_rules_raises(t) ==
    /\ th[t].pc = "rules"
    /\ th' = [th EXCEPT ![t] = [Idle EXCEPT !.op = th[t].op \o "_raised",
                                            !.inst = th[t].inst]]
    /\ lock' = IF th[t].op = "refresh" THEN 0 ELSE lock
    /\ UNCHANGED <<instances, iptables, committed, sg_version, ncalls,
                   published, compilerVars, flagVars, nwfilterVars>>

unfilter_instance_Unconditional(t, i) ==
    /\ th[t].pc = "idle"
    /\ ncalls < MaxCalls
    /\ ncalls' = ncalls + 1
    /\ instances' = instances \ {i}
    /\ published' = published \ {i}
    /\ iptables' = remove_filters_for_instance(iptables, i)
    /\ th' = [th EXCEPT ![t] = [Idle EXCEPT !.pc = "apply", !.op = "unfilter",
                                            !.inst = i]]
    /\ UNCHANGED <<committed, lock, sg_version, compilerVars, flagVars, nwfilterVars>>

\* unfilter_instance(instance) up to iptables.apply(); the whole call when
\* the instance is not tracked.
unfilter_instance(t, i) ==
    /\ th[t].pc = "idle"
    /\ ncalls < MaxCalls
    /\ ncalls' = ncalls + 1
    /\ IF i \in instances
       THEN /\ instances' = instances \ {i}
            /\ published' = published \ {i}
            /\ iptables' = remove_filters_for_instance(iptables, i)
            /\ th' = [th EXCEPT ![t] = [Idle EXCEPT !.pc = "apply",
                                                    !.op = "unfilter",
                                                    !.inst = i]]
       ELSE \* LOG.info('Attempted to unfilter instance %s which is not filtered')
            /\ th' = [th EXCEPT ![t] = [Idle EXCEPT !.op = "unfilter",
                                                    !.inst = i]]
            /\ UNCHANGED <<instances, published, iptables>>
    /\ UNCHANGED <<committed, lock, sg_version, compilerVars, flagVars, nwfilterVars>>

\* A rule is added to or removed from group g in the data store.
RECURSIVE Sum(_, _)
Sum(f, S) ==
    IF S = {} THEN 0
    ELSE LET x == CHOOSE y \in S : TRUE IN f[x] + Sum(f, S \ {x})

change_group_rules(g) ==
    /\ Sum(sg_version, GroupIds) < MaxChanges
    /\ sg_version' = [sg_version EXCEPT ![g] = @ + 1]
    /\ UNCHANGED <<instances, iptables, committed, lock, th, ncalls, published,
                   compilerVars, flagVars, nwfilterVars>>

NoCompilerCall ==
    /\ cin = [network_info |-> <<>>, sg_rules |-> <<>>]
    /\ cout = [called |-> FALSE, v4 |-> <<>>, v6 |-> <<>>]

\* No nwfilter call has been made: outcome of the last call, the number of
\* definitions it issued, the name of the last one, and how many of them
\* libvirt rejected.
NoCall == [outcome |-> "none", ndef |-> 0, last |-> "none", rejected |-> 0]

\* NWFilterFirewall.__init__, on a libvirt without nova's filters.
NoFilters ==
    /\ filters = <<>>
    /\ static_filters_configured = FALSE
    /\ call = [t \in Threads |-> NoCall]

\* The driver after construction.
Init ==
    /\ use_ipv6 \in BOOLEAN
    /\ allow_project_net_traffic = TRUE
    /\ instances = {}
    /\ iptables = InitialTables
    /\ committed = [ipv4 |-> EmptyTable, ipv6 |-> EmptyTable]
    /\ lock = 0
    /\ th = [t \in Threads |-> Idle]
    /\ sg_version = [g \in GroupIds |-> 0]
    /\ ncalls = 0
    /\ published = {}
    /\ NoCompilerCall
    /\ NoFilters

Next ==
    \/ \E t \in Threads, i \in InstanceIds : prepare_instance_filter(t, i)
    \/ \E t \in Threads, i \in InstanceIds : unfilter_instance(t, i)
    \/ \E t \in Threads : refresh_security_group_rules(t)
    \/ \E t \in Threads : refresh_get_network_info(t)
    \/ \E t \in Threads : read_group_rules(t)
    \/ \E t \in Threads : apply(t)
    \/ \E g \in GroupIds : change_group_rules(g)

Spec == Init /\ [][Next]_vars

\* prepare_instance_filter(instance) run to its end and followed at once by
\* unfilter_instance(instance), no other call taking a step in between:
\* prepare records the instance, stages its chain, jumps and rules and
\* commits; unfilter then finds the instance tracked, removes its chain and
\* commits.
prepare_then_unfilter(t, i) ==
    /\ th[t].pc = "idle"
    /\ ncalls < MaxCalls
    /\ ncalls' = ncalls + 1
    /\ LET network_info == get_network_info(i)
           groups == security_group_get_by_instance(i)
           sg_rules == [k \in 1..Len(groups) |->
                          security_group_rule_get_by_security_group(groups[k])]
           begun == add_filters_for_instance_begin(iptables, i, network_info)
           prepared == add_filters_for_instance_end(begun, i, network_info,
                                                    sg_rules).ipt
           tracked == instances \cup {i}
       IN  /\ instances' = tracked \ {i}
           /\ iptables' = remove_filters_for_instance(prepared, i)
           /\ committed' = iptables'
           /\ published' = published \ {i}
           /\ th' = [th EXCEPT ![t] = [Idle EXCEPT !.op = "prepare_unfilter",
                                                   !.inst = i]]
    /\ UNCHANGED <<lock, sg_version, compilerVars, flagVars, nwfilterVars>>

NextRoundTrip ==
    \/ Next
    \/ \E t \in Threads, i \in InstanceIds : prepare_then_unfilter(t, i)

SpecRoundTrip == Init /\ [][NextRoundTrip]_vars

\* The driver with data-store reads that can fail.
NextRaising ==
    \/ Next
    \/ \E t \in Threads : read_group_rules_raises(t)

SpecRaising == Init /\ [][NextRaising]_vars

\* The tables after prepare_instance_filter has run to its end for each
\* instance of ids in turn.
RECURSIVE PreparedTables(_, _)
PreparedTables(ipt, ids) ==
    IF ids = <<>> THEN ipt
    ELSE LET i == Head(ids)
             begun == add_filters_for_instance_begin(ipt, i, get_network_info(i))
             sg_rules == [k \in 1..i |-> GroupRulesAt(k, 0)]
         IN  PreparedTables(
                 add_filters_for_instance_end(begun, i, get_network_info(i),
                                              sg_rules).ipt,
                 Tail(ids))

\* Every instance of the host has been prepared and committed; from there
\* on only refresh_security_group_rules is called.
InitRefresh ==
    /\ use_ipv6 \in BOOLEAN
    /\ allow_project_net_traffic = TRUE
    /\ instances = InstanceIds
    /\ iptables = PreparedTables(InitialTables, SortedSeq(InstanceIds))
    /\ committed = iptables
    /\ lock = 0
    /\ th = [t \in Threads |-> Idle]
    /\ sg_version = [g \in GroupIds |-> 0]
    /\ ncalls = 0
    /\ published = InstanceIds
    /\ NoCompilerCall
    /\ NoFilters

NextRefresh ==
    \/ \E t \in Threads : refresh_security_group_rules(t)
    \/ \E t \in Threads : refresh_get_network_info(t)
    \/ \E t \in Threads : read_group_rules(t)
    \/ \E t \in Threads : apply(t)
    \/ \E g \in GroupIds : change_group_rules(g)

SpecRefresh == InitRefresh /\ [][NextRefresh]_vars

-----------------------------------------------------------------------------
(* Filter-Graph backend: NWFilterFirewall *)

\* The instances handed to the nwfilter driver: instance 0 is in no group.
FilterInstanceIds == 0..MaxInstances

\* instance['name']
instance_name(i) == "instance-" \o ToString(i)

\* instance['image_ref'] == str(FLAGS.vpn_image_id): the last instance runs
\* the VPN image.
is_vpn_image(i) == i = MaxInstances

\* mapping['mac'].replace(':', ''), on the MAC addresses of the model.
nic_id(mac) ==
    LET k == CHOOSE n \in 0..(MaxInstances + MaxNets) : Mapping(n).mac = mac
    IN  "02163e00000" \o ToString(k)

_instance_filter_name(i, nic) ==
    IF nic = None
    THEN "nova-instance-" \o instance_name(i)
    ELSE "nova-instance-" \o instance_name(i) \o "-" \o nic

\* A filter definition: the name and chain of the <filter> element, its
\* <filterref> children and its <rule> children.
_filter_container(name, children) ==
    [name |-> name, chain |-> "root", refs |-> children, rules |-> <<>>]

\* The <rule> elements of the base filters: per protocol, accept out at
\* priority 399 and drop in at priority 400.
BaseRules(protocols) ==
    [k \in 1..(2 * Len(protocols)) |->
        IF k % 2 = 1
        THEN <<"accept", "out", "399", protocols[(k + 1) \div 2]>>
        ELSE <<"drop", "in", "400", protocols[k \div 2]>>]

nova_base_ipv4_filter ==
    [name |-> "nova-base-ipv4", chain |-> "ipv4", refs |-> <<>>,
     rules |-> BaseRules(<<"tcp", "udp", "icmp">>)]

nova_base_ipv6_filter ==
    [name |-> "nova-base-ipv6", chain |-> "ipv6", refs |-> <<>>,
     rules |-> BaseRules(<<"tcp-ipv6", "udp-ipv6", "icmpv6">>)]

nova_dhcp_filter ==
    [name |-> "nova-allow-dhcp-server", chain |-> "ipv4", refs |-> <<>>,
     rules |-> <<<<"accept", "out", "100", "udp", "srcipaddr", "0.0.0.0",
                   "dstipaddr", "255.255.255.255", "srcportstart", "68",
                   "dstportstart", "67">>,
                 <<"accept", "in", "100", "udp", "srcipaddr", "$DHCPSERVER",
                   "srcportstart", "67", "dstportstart", "68">>>>]

nova_ra_filter ==
    [name |-> "nova-allow-ra-server", chain |-> "root", refs |-> <<>>,
     rules |-> <<<<"accept", "inout", "100", "icmpv6", "srcipaddr",
                   "$RASERVER">>>>]

nova_project_filter ==
    [name |-> "nova-project", chain |-> "ipv4", refs |-> <<>>,
     rules |-> [k \in 1..3 |->
                   <<"accept", "in", "200", <<"tcp", "udp", "icmp">>[k],
                     "srcipaddr", "$PROJNET", "srcipmask", "$PROJMASK">>]]

nova_project_filter_v6 ==
    [name |-> "nova-project-v6", chain |-> "ipv6", refs |-> <<>>,
     rules |-> [k \in 1..3 |->
                   <<"accept", "inout", "200",
                     <<"tcp-ipv6", "udp-ipv6", "icmpv6">>[k],
                     "srcipaddr", "$PROJNETV6", "srcipmask", "$PROJMASKV6">>]]

\* netutils.get_net_and_mask / get_net_and_prefixlen of a CIDR.
get_net_and_mask(cidr) ==
    IF cidr = CidrV6 THEN <<"::", "::">> ELSE <<"0.0.0.0", "0.0.0.0">>

get_net_and_prefixlen(cidr) ==
    IF cidr = CidrV6 THEN <<"::", "0">> ELSE <<"0.0.0.0", "0">>

v6protocol(protocol) ==
    CASE protocol = "tcp" -> "tcp-ipv6"
      [] protocol = "udp" -> "udp-ipv6"
      [] protocol = "icmp" -> "icmpv6"

\* The <rule> element of one security-group rule (lines 376-400).
rule_xml(rule) ==
    <<"accept", "in", "300">> \o
    (IF rule.cidr = None THEN <<>>
     ELSE (IF use_ipv6 /\ get_ip_version(rule.cidr) = 6
           THEN <<v6protocol(rule.protocol), "srcipaddr",
                  get_net_and_prefixlen(rule.cidr)[1], "srcipmask",
                  get_net_and_prefixlen(rule.cidr)[2]>>
           ELSE <<rule.protocol, "srcipaddr", get_net_and_mask(rule.cidr)[1],
                  "srcipmask", get_net_and_mask(rule.cidr)[2]>>)
          \o
          (IF rule.protocol \in {"tcp", "udp"}
           THEN <<"dstportstart", ToString(rule.from_port),
                  "dstportend", ToString(rule.to_port)>>
           ELSE IF rule.protocol = "icmp"
           THEN (IF rule.from_port # -1
                 THEN <<"type", ToString(rule.from_port)>> ELSE <<>>)
                \o (IF rule.to_port # -1
                    THEN <<"code", ToString(rule.to_port)>> ELSE <<>>)
           ELSE <<>>))

nova_secgroup_name(security_group_id) ==
    "nova-secgroup-" \o ToString(security_group_id)

\* The body of security_group_to_nwfilter_xml, given the rules that
\* db.security_group_get returned: one <rule> element per stored rule.
nwfilter_xml(security_group_id, rules) ==
    [name |-> nova_secgroup_name(security_group_id),
     chain |-> IF use_ipv6 THEN "root" ELSE "ipv4",
     refs |-> <<>>,
     rules |-> [k \in 1..Len(rules) |-> rule_xml(rules[k])]]

\* security_group_to_nwfilter_xml, on the rules db.security_group_get
\* returns for the group.
security_group_to_nwfilter_xml(security_group_id) ==
    nwfilter_xml(security_group_id,
                 security_group_rule_get_by_security_group(security_group_id))

\* The definitions of _ensure_static_filters, in order.
StaticFilters ==
    <<_filter_container("nova-base",
                        <<"no-mac-spoofing", "no-ip-spoofing",
                          "no-arp-spoofing", "allow-dhcp-server">>),
      _filter_container("nova-vpn", <<"allow-dhcp-server">>),
      nova_base_ipv4_filter,
      nova_base_ipv6_filter,
      nova_dhcp_filter,
      nova_ra_filter>>
    \o (IF allow_project_net_traffic
        THEN <<nova_project_filter>>
             \o (IF use_ipv6 THEN <<nova_project_filter_v6>> ELSE <<>>)
        ELSE <<>>)

\* What a call has left to do: define an object, define a group's object
\* from the data store, or set static_filters_configured.
NoXml == [name |-> "", chain |-> "", refs |-> <<>>, rules |-> <<>>]
DefineItem(xml) == [kind |-> "define", id |-> 0, xml |-> xml]
GroupItem(security_group_id) ==
    [kind |-> "secgroup", id |-> security_group_id, xml |-> NoXml]
ConfiguredItem == [kind |-> "configured", id |-> 0, xml |-> NoXml]

DefineItems(xmls) == [k \in 1..Len(xmls) |-> DefineItem(xmls[k])]

\* _ensure_static_filters: nothing once the guard is set.
_ensure_static_filters ==
    IF static_filters_configured THEN <<>>
    ELSE DefineItems(StaticFilters) \o <<ConfiguredItem>>

\* Every instance given the plain base filter.
base_filter_AlwaysBase(i) == "nova-base"

base_filter(i) == IF is_vpn_image(i) THEN "nova-vpn" ELSE "nova-base"

\* The per-NIC definitions of setup_basic_filtering (lines 203-207).
basic_nic_filters(i, network_info) ==
    [k \in 1..Len(network_info) |->
        _filter_container(
            _instance_filter_name(i, nic_id(network_info[k].mapping.mac)),
            <<base_filter(i)>>)]

_create_network_filters(i, network_info, instance_secgroup_filter_name) ==
    [k \in 1..Len(network_info) |->
        _filter_container(
            _instance_filter_name(i, nic_id(network_info[k].mapping.mac)),
            <<base_filter(i), instance_secgroup_filter_name>>
            \o (IF allow_project_net_traffic
                THEN <<"nova-project">>
                     \o (IF use_ipv6 THEN <<"nova-project-v6">> ELSE <<>>)
                ELSE <<>>))]

instance_secgroup_filter_name(i) == _instance_filter_name(i, None) \o "-secgroup"

\* The children of the per-instance security-group object before any group.
base_children(network_info) ==
    <<"nova-base-ipv4", "nova-base-ipv6", "nova-allow-dhcp-server">>
    \o (IF use_ipv6 /\ \E k \in DOMAIN network_info :
                          network_info[k].network.gateway_v6 # None
        THEN <<"nova-allow-ra-server">> ELSE <<>>)

\* The loop over the groups of the instance (lines 318-328): per group, the
\* group's object is refreshed, then the per-instance object is defined with
\* the children so far.
RECURSIVE group_definitions(_, _, _)
group_definitions(i, groups, children) ==
    IF groups = <<>> THEN <<>>
    ELSE LET next == Append(children,
                            nova_secgroup_name(Head(groups)))
         IN  <<GroupItem(Head(groups)),
               DefineItem(_filter_container(instance_secgroup_filter_name(i),
                                            next))>>
             \o group_definitions(i, Tail(groups), next)

\* A greenthread entering an nwfilter call that has the definitions todo
\* ahead of it; a call with nothing to define has returned.
nwfilter_thread(op, i, todo) ==
    IF todo = <<>>
    THEN [Idle EXCEPT !.op = op, !.inst = i]
    ELSE [Idle EXCEPT !.pc = "define", !.op = op, !.inst = i, !.todo = todo]

nwfilter_call(todo) ==
    [outcome |-> IF todo = <<>> THEN "returned" ELSE "running",
     ndef |-> 0, last |-> "none", rejected |-> 0]

\* NWFilterFirewall.setup_basic_filtering(instance) up to its first
\* definition: handle_security_groups is never set, so the static filters are
\* ensured and one filter per NIC defined.
nwfilter_setup_basic_filtering(t, i) ==
    /\ th[t].pc = "idle"
    /\ ncalls < MaxFilterCalls
    /\ ncalls' = ncalls + 1
    /\ LET network_info == get_network_info(i)
           todo == _ensure_static_filters
                       \o DefineItems(basic_nic_filters(i, network_info))
       IN  /\ th' = [th EXCEPT ![t] =
                        nwfilter_thread("setup_basic_filtering", i, todo)]
           /\ call' = [call EXCEPT ![t] = nwfilter_call(todo)]
    /\ UNCHANGED <<instances, iptables, committed, lock, sg_version, published,
                   filters, static_filters_configured, compilerVars, flagVars>>

\* NWFilterFirewall.prepare_instance_filter(instance) up to its first
\* definition.
nwfilter_prepare_instance_filter(t, i) ==
    /\ th[t].pc = "idle"
    /\ ncalls < MaxFilterCalls
    /\ ncalls' = ncalls + 1
    /\ LET network_info == get_network_info(i)
           todo == group_definitions(i, security_group_get_by_instance(i),
                                     base_children(network_info))
                       \o DefineItems(
                              _create_network_filters(
                                  i, network_info,
                                  instance_secgroup_filter_name(i)))
       IN  /\ th' = [th EXCEPT ![t] =
                        nwfilter_thread("prepare_instance_filter", i, todo)]
           /\ call' = [call EXCEPT ![t] = nwfilter_call(todo)]
    /\ UNCHANGED <<instances, iptables, committed, lock, sg_version, published,
                   filters, static_filters_configured, compilerVars, flagVars>>

\* refresh_security_group_rules ensuring the static filters first.
nwfilter_refresh_security_group_rules_WithStatic(t, g) ==
    /\ th[t].pc = "idle"
    /\ ncalls < MaxFilterCalls
    /\ ncalls' = ncalls + 1
    /\ LET todo == _ensure_static_filters \o <<GroupItem(g)>>
       IN  /\ th' = [th EXCEPT ![t] =
                        nwfilter_thread("refresh_security_group_rules", g, todo)]
           /\ call' = [call EXCEPT ![t] = nwfilter_call(todo)]
    /\ UNCHANGED <<instances, iptables, committed, lock, sg_version, published,
                   filters, static_filters_configured, compilerVars, flagVars>>

\* NWFilterFirewall.refresh_security_group_rules(security_group_id) up to
\* its definition.
nwfilter_refresh_security_group_rules(t, g) ==
    /\ th[t].pc = "idle"
    /\ ncalls < MaxFilterCalls
    /\ ncalls' = ncalls + 1
    /\ th' = [th EXCEPT ![t] =
                 nwfilter_thread("refresh_security_group_rules", g,
                                 <<GroupItem(g)>>)]
    /\ call' = [call EXCEPT ![t] = nwfilter_call(<<GroupItem(g)>>)]
    /\ UNCHANGED <<instances, iptables, committed, lock, sg_version, published,
                   filters, static_filters_configured, compilerVars, flagVars>>

\* The definition a suspended call is about to make.
next_xml(t) ==
    LET item == Head(th[t].todo)
    IN  IF item.kind = "secgroup"
        THEN security_group_to_nwfilter_xml(item.id)
        ELSE item.xml

\* A rejected definition whose exception is dropped: the call goes on with
\* its next definition.
_define_filter_raises_Swallowed(t) ==
    /\ th[t].pc = "define"
    /\ LET rest == Tail(th[t].todo)
           configured == rest # <<>> /\ Head(rest).kind = "configured"
           after == IF configured THEN Tail(rest) ELSE rest
       IN  /\ static_filters_configured' =
                  (static_filters_configured \/ configured)
           /\ th' = [th EXCEPT ![t] =
                        nwfilter_thread(th[t].op, th[t].inst, after)]
           /\ call' = [call EXCEPT ![t] =
                          [outcome |-> IF after = <<>> THEN "returned"
                                       ELSE "running",
                           ndef |-> call[t].ndef + 1,
                           last |-> next_xml(t).name,
                           rejected |-> call[t].rejected + 1]]
    /\ UNCHANGED <<instances, iptables, committed, lock, sg_version, ncalls,
                   published, filters, compilerVars, flagVars>>

\* _define_filter resumed with libvirt's nwfilterDefineXML having raised:
\* nothing between tpool.execute and the caller of the driver catches, so the
\* call ends with the exception.
_define_filter_raises(t) ==
    /\ th[t].pc = "define"
    /\ th' = [th EXCEPT ![t] = nwfilter_thread(th[t].op, th[t].inst, <<>>)]
    /\ call' = [call EXCEPT ![t] = [outcome |-> "raised",
                                    ndef |-> call[t].ndef + 1,
                                    last |-> next_xml(t).name,
                                    rejected |-> call[t].rejected + 1]]
    /\ UNCHANGED <<instances, iptables, committed, lock, sg_version, ncalls,
                   published, filters, static_filters_configured,
                   compilerVars, flagVars>>

\* nwfilterDefineXML called in the cooperative scheduler itself: a
\* definition completes only while no other caller's is pending.
_define_filter_InScheduler(t) ==
    /\ th[t].pc = "define"
    /\ \A u \in Threads \ {t} : th[u].pc # "define"
    /\ LET xml == next_xml(t)
           rest == Tail(th[t].todo)
           configured == rest # <<>> /\ Head(rest).kind = "configured"
           after == IF configured THEN Tail(rest) ELSE rest
       IN  /\ filters' = (xml.name :> xml) @@ filters
           /\ static_filters_configured' =
                  (static_filters_configured \/ configured)
           /\ th' = [th EXCEPT ![t] =
                        nwfilter_thread(th[t].op, th[t].inst, after)]
           /\ call' = [call EXCEPT ![t] =
                          [outcome |-> IF after = <<>> THEN "returned"
                                       ELSE "running",
                           ndef |-> call[t].ndef + 1,
                           last |-> xml.name,
                           rejected |-> call[t].rejected]]
    /\ UNCHANGED <<instances, iptables, committed, lock, sg_version, ncalls,
                   published, compilerVars, flagVars>>

\* _ensure_static_filters setting the guard before its first definition.
_define_filter_GuardFirst(t) ==
    /\ th[t].pc = "define"
    /\ LET xml == next_xml(t)
           rest == Tail(th[t].todo)
           configured == rest # <<>> /\ Head(rest).kind = "configured"
           after == IF configured THEN Tail(rest) ELSE rest
       IN  /\ filters' = (xml.name :> xml) @@ filters
           /\ static_filters_configured' =
                  (\/ static_filters_configured
                   \/ \E k \in DOMAIN th[t].todo :
                          th[t].todo[k].kind = "configured")
           /\ th' = [th EXCEPT ![t] =
                        nwfilter_thread(th[t].op, th[t].inst, after)]
           /\ call' = [call EXCEPT ![t] =
                          [outcome |-> IF after = <<>> THEN "returned"
                                       ELSE "running",
                           ndef |-> call[t].ndef + 1,
                           last |-> xml.name,
                           rejected |-> call[t].rejected]]
    /\ UNCHANGED <<instances, iptables, committed, lock, sg_version, ncalls,
                   published, compilerVars, flagVars>>

\* _define_filter resumed with the object defined; the call runs on to its
\* next definition, setting static_filters_configured on the way when the
\* definition was the last of _ensure_static_filters.
_define_filter(t) ==
    /\ th[t].pc = "define"
    /\ LET xml == next_xml(t)
           rest == Tail(th[t].todo)
           configured == rest # <<>> /\ Head(rest).kind = "configured"
           after == IF configured THEN Tail(rest) ELSE rest
       IN  /\ filters' = (xml.name :> xml) @@ filters
           /\ static_filters_configured' =
                  (static_filters_configured \/ configured)
           /\ th' = [th EXCEPT ![t] =
                        nwfilter_thread(th[t].op, th[t].inst, after)]
           /\ call' = [call EXCEPT ![t] =
                          [outcome |-> IF after = <<>> THEN "returned"
                                       ELSE "running",
                           ndef |-> call[t].ndef + 1,
                           last |-> xml.name,
                           rejected |-> call[t].rejected]]
    /\ UNCHANGED <<instances, iptables, committed, lock, sg_version, ncalls,
                   published, compilerVars, flagVars>>

\* A call that makes no definition and returns value.
nwfilter_returns(t, op, i, value) ==
    /\ th[t].pc = "idle"
    /\ ncalls < MaxFilterCalls
    /\ ncalls' = ncalls + 1
    /\ th' = [th EXCEPT ![t] = nwfilter_thread(op, i, <<>>)]
    /\ call' = [call EXCEPT ![t] =
                   [outcome |-> value, ndef |-> 0, last |-> "none",
                    rejected |-> 0]]

\* NWFilterFirewall.unfilter_instance: 'Nothing to do'.
nwfilter_unfilter_instance(t, i) ==
    /\ nwfilter_returns(t, "nwfilter_unfilter_instance", i, "returned")
    /\ UNCHANGED <<instances, iptables, committed, lock, sg_version, published,
                   filters, static_filters_configured, compilerVars, flagVars>>

\* NWFilterFirewall.apply_instance_filter: a no-op.
nwfilter_apply_instance_filter(t, i) ==
    /\ nwfilter_returns(t, "nwfilter_apply_instance_filter", i, "returned")
    /\ UNCHANGED <<instances, iptables, committed, lock, sg_version, published,
                   filters, static_filters_configured, compilerVars, flagVars>>

\* instance_filter_exists answering from the first NIC alone.
lookup_filters_FirstNicOnly(i, network_info) ==
    IF network_info = <<>> THEN "True"
    ELSE IF _instance_filter_name(i, nic_id(Head(network_info).mapping.mac))
                \notin DOMAIN filters
    THEN "False"
    ELSE "True"

\* The lookup loop of instance_filter_exists: False at the first NIC whose
\* nwfilterLookupByName raises libvirtError, True after the last.
RECURSIVE lookup_filters(_, _)
lookup_filters(i, network_info) ==
    IF network_info = <<>> THEN "True"
    ELSE IF _instance_filter_name(i, nic_id(Head(network_info).mapping.mac))
                \notin DOMAIN filters
    THEN "False"
    ELSE lookup_filters(i, Tail(network_info))

\* NWFilterFirewall.instance_filter_exists(instance)
nwfilter_instance_filter_exists(t, i) ==
    /\ nwfilter_returns(t, "nwfilter_instance_filter_exists", i,
                        lookup_filters(i, get_network_info(i)))
    /\ UNCHANGED <<instances, iptables, committed, lock, sg_version, published,
                   filters, static_filters_configured, compilerVars, flagVars>>

\* IptablesFirewallDriver.instance_filter_exists: the nwfilter helper's
\* answer.
instance_filter_exists(t, i) ==
    /\ nwfilter_returns(t, "instance_filter_exists", i,
                        lookup_filters(i, get_network_info(i)))
    /\ UNCHANGED <<instances, iptables, committed, lock, sg_version, published,
                   filters, static_filters_configured, compilerVars, flagVars>>

\* apply_instance_filter calling iptables.apply().
apply_instance_filter_Commits(t, i) ==
    /\ nwfilter_returns(t, "apply_instance_filter", i, "returned")
    /\ committed' = iptables
    /\ UNCHANGED <<instances, iptables, lock, sg_version, published,
                   filters, static_filters_configured, compilerVars, flagVars>>

\* IptablesFirewallDriver.apply_instance_filter: a no-op.
apply_instance_filter(t, i) ==
    /\ nwfilter_returns(t, "apply_instance_filter", i, "returned")
    /\ UNCHANGED <<instances, iptables, committed, lock, sg_version, published,
                   filters, static_filters_configured, compilerVars, flagVars>>

\* IptablesFirewallDriver.refresh_security_group_members: a no-op.
refresh_security_group_members(t, g) ==
    /\ nwfilter_returns(t, "refresh_security_group_members", g, "returned")
    /\ UNCHANGED <<instances, iptables, committed, lock, sg_version, published,
                   filters, static_filters_configured, compilerVars, flagVars>>

\* IptablesFirewallDriver.setup_basic_filtering: 'Use NWFilter from libvirt
\* for this'.
setup_basic_filtering(t, i) == nwfilter_setup_basic_filtering(t, i)

\* A host whose instances have been prepared on the Chain-Tree backend, and
\* a libvirt without nova's filters.
InitFilterGraph ==
    /\ use_ipv6 \in BOOLEAN
    /\ allow_project_net_traffic \in BOOLEAN
    /\ instances = InstanceIds
    /\ iptables = PreparedTables(InitialTables, SortedSeq(InstanceIds))
    /\ committed = iptables
    /\ lock = 0
    /\ th = [t \in Threads |-> Idle]
    /\ sg_version = [g \in GroupIds |-> 0]
    /\ ncalls = 0
    /\ published = InstanceIds
    /\ NoCompilerCall
    /\ NoFilters

\* The nwfilter driver, called by concurrent greenthreads.
NextFilterGraph ==
    \/ \E t \in Threads, i \in FilterInstanceIds :
           nwfilter_setup_basic_filtering(t, i)
    \/ \E t \in Threads, i \in FilterInstanceIds :
           nwfilter_prepare_instance_filter(t, i)
    \/ \E t \in Threads, g \in GroupIds :
           nwfilter_refresh_security_group_rules(t, g)
    \/ \E t \in Threads : _define_filter(t)
    \/ \E t \in Threads : _define_filter_raises(t)
    \/ \E t \in Threads, i \in FilterInstanceIds :
           nwfilter_unfilter_instance(t, i)
    \/ \E t \in Threads, i \in FilterInstanceIds :
           nwfilter_instance_filter_exists(t, i)
    \/ \E t \in Threads, i \in FilterInstanceIds :
           instance_filter_exists(t, i)

SpecFilterGraph == InitFilterGraph /\ [][NextFilterGraph]_vars

\* The iptables driver with the nwfilter driver it composes: basic filtering
\* goes to nwfilter, the chains to iptables.
NextComposed ==
    \/ \E t \in Threads, i \in InstanceIds : setup_basic_filtering(t, i)
    \/ \E t \in Threads : _define_filter(t)
    \/ \E t \in Threads : _define_filter_raises(t)
    \/ \E t \in Threads, i \in InstanceIds : unfilter_instance(t, i)
    \/ \E t \in Threads : apply(t)
    \/ \E t \in Threads, i \in InstanceIds : apply_instance_filter(t, i)
    \/ \E t \in Threads, i \in InstanceIds :
           nwfilter_apply_instance_filter(t, i)
    \/ \E t \in Threads, g \in GroupIds : refresh_security_group_members(t, g)

SpecComposed == InitFilterGraph /\ [][NextComposed]_vars

-----------------------------------------------------------------------------
(* Direct calls of the Rule Compiler on bounded inputs *)

RECURSIVE SeqsUpTo(_, _)
SeqsUpTo(S, n) ==
    IF n = 0 THEN {<<>>}
    ELSE LET shorter == SeqsUpTo(S, n - 1)
         IN  shorter \cup {Append(s, x) : s \in shorter, x \in S}

\* One group holding one rule, over all rules.
SingleRuleGroups == {<<<<r>>>> : r \in Rules}

ShapeRules ==
    {[protocol |-> "tcp", cidr |-> CidrV4, from_port |-> 8, to_port |-> 8],
     [protocol |-> "udp", cidr |-> CidrV6, from_port |-> 8, to_port |-> 9],
     [protocol |-> "udp", cidr |-> CidrV4, from_port |-> 8, to_port |-> 9],
     [protocol |-> "icmp", cidr |-> CidrV6, from_port |-> 8, to_port |-> -1],
     [protocol |-> None, cidr |-> None, from_port |-> -1, to_port |-> -1]}

\* Up to g groups holding up to r rules together.
RECURSIVE GroupLists(_, _)
GroupLists(g, r) ==
    IF g = 0 THEN {<<>>}
    ELSE {<<>>} \cup
         UNION {{<<first>> \o rest : rest \in GroupLists(g - 1, r - Len(first))} :
                   first \in SeqsUpTo(ShapeRules, r)}

ShapedGroups == GroupLists(MaxGroups, MaxRules)

CompilerInputs ==
    [network_info : {Attachments(1, n) : n \in 0..MaxNets},
     sg_rules : SingleRuleGroups \cup ShapedGroups]

InitCompiler ==
    /\ use_ipv6 \in BOOLEAN
    /\ allow_project_net_traffic \in BOOLEAN
    /\ instances = {}
    /\ iptables = InitialTables
    /\ committed = [ipv4 |-> EmptyTable, ipv6 |-> EmptyTable]
    /\ lock = 0
    /\ th = [t \in Threads |-> Idle]
    /\ sg_version = [g \in GroupIds |-> 0]
    /\ ncalls = 0
    /\ published = {}
    /\ cin \in CompilerInputs
    /\ cout = [called |-> FALSE, v4 |-> <<>>, v6 |-> <<>>]
    /\ NoFilters

CallInstanceRules ==
    /\ ~cout.called
    /\ LET r == instance_rules(cin.network_info, cin.sg_rules)
       IN  cout' = [called |-> TRUE, v4 |-> r.v4, v6 |-> r.v6]
    /\ UNCHANGED <<flagVars, instances, iptables, committed, lock, th,
                   sg_version, ncalls, published, cin, nwfilterVars>>

NextCompiler == CallInstanceRules

SpecCompiler == InitCompiler /\ [][NextCompiler]_vars

-----------------------------------------------------------------------------
(* Both encoders on the same stored rules *)

\* One group, attached to an instance with one network: a single rule out of
\* all rules, or up to MaxRules rules of the shapes.
EncoderInputs ==
    [network_info : {Attachments(1, 1)},
     sg_rules : {<<rules>> :
                    rules \in {<<r>> : r \in Rules}
                                 \cup SeqsUpTo(ShapeRules, MaxRules)}]

InitEncoders ==
    /\ use_ipv6 \in BOOLEAN
    /\ allow_project_net_traffic \in BOOLEAN
    /\ instances = {}
    /\ iptables = InitialTables
    /\ committed = [ipv4 |-> EmptyTable, ipv6 |-> EmptyTable]
    /\ lock = 0
    /\ th = [t \in Threads |-> Idle]
    /\ sg_version = [g \in GroupIds |-> 0]
    /\ ncalls = 0
    /\ published = {}
    /\ cin \in EncoderInputs
    /\ cout = [called |-> FALSE, v4 |-> <<>>, v6 |-> <<>>]
    /\ NoFilters

\* NWFilterFirewall.refresh_security_group_rules(1) on a data store whose
\* group 1 holds the rules of cin, accepted by libvirt.
CallRefreshSecurityGroupRules ==
    /\ nova_secgroup_name(1) \notin DOMAIN filters
    /\ LET xml == nwfilter_xml(1, cin.sg_rules[1])
       IN  filters' = (xml.name :> xml) @@ filters
    /\ UNCHANGED <<flagVars, instances, iptables, committed, lock, th,
                   sg_version, ncalls, published, compilerVars,
                   static_filters_configured, call>>

NextEncoders == CallInstanceRules \/ CallRefreshSecurityGroupRules

SpecEncoders == InitEncoders /\ [][NextEncoders]_vars

-----------------------------------------------------------------------------
(* Properties of the Rule Compiler, over SpecCompiler *)

RECURSIVE Flatten(_)
Flatten(ss) == IF ss = <<>> THEN <<>> ELSE Head(ss) \o Flatten(Tail(ss))

HasCidr(r) == r.cidr # None
IsV4Rule(r) == HasCidr(r) /\ r.cidr = CidrV4
IsV6Rule(r) == HasCidr(r) /\ r.cidr # CidrV4

\* The rules of the call's groups in stored order, and those of each family.
StoredRules == Flatten(cin.sg_rules)
StoredV4 == SelectSeq(StoredRules, IsV4Rule)
StoredV6 == SelectSeq(StoredRules, IsV6Rule)

\* A directive compiled from a security-group rule starts with its protocol.
IsRuleDirective(d) == d[1] = "-p"
RuleDirectives(list) == SelectSeq(list, IsRuleDirective)

Last(list) == list[Len(list)]
Occurrences(list, d) == Cardinality({k \in DOMAIN list : list[k] = d})

\* The k-th rule directive of each list belongs to the k-th stored rule of
\* that family.
SameCounts ==
    /\ Len(RuleDirectives(cout.v4)) = Len(StoredV4)
    /\ Len(RuleDirectives(cout.v6)) = Len(StoredV6)

\* P holds of every (rule, directive, version) the call compiled.
ForEachCompiled(P(_, _, _)) ==
    /\ SameCounts
    /\ \A k \in DOMAIN StoredV4 : P(StoredV4[k], RuleDirectives(cout.v4)[k], 4)
    /\ \A k \in DOMAIN StoredV6 : P(StoredV6[k], RuleDirectives(cout.v6)[k], 6)

\* C5: for every instance, network attachments and security-group rules
\* (zero rules and zero groups included), the last element of both the v4 and
\* the v6 list is the jump to the shared fallback chain, and that jump occurs
\* exactly once per list.
C5_FallbackLast ==
    cout.called =>
        \A list \in {cout.v4, cout.v6} :
            /\ Len(list) > 0
            /\ Last(list) = <<"-j", "$sg-fallback">>
            /\ Occurrences(list, <<"-j", "$sg-fallback">>) = 1

C5_Witness ==
    /\ cout.called
    /\ cin.sg_rules = <<>>
    /\ Last(cout.v4) = <<"-j", "$sg-fallback">>
    /\ Last(cout.v6) = <<"-j", "$sg-fallback">>

\* Once a rule directive has appeared in the list, only rule directives
\* follow until the final element.
RulesAfterPrefix(list) ==
    \A j, k \in DOMAIN list :
        (j < k /\ k < Len(list) /\ IsRuleDirective(list[j]))
            => IsRuleDirective(list[k])

\* C6: in both lists the first directive is DROP-INVALID and the second
\* ACCEPT-ESTABLISHED/RELATED; in the v4 list they are followed by one DHCP
\* ACCEPT per network and then, only when intra-project traffic is enabled,
\* the project-CIDR ACCEPTs; every directive derived from a security-group
\* rule comes after the whole fixed prefix and before the fallback jump.
C6_FixedPrefixFirst ==
    cout.called =>
        LET n == Len(cin.network_info)
            net(k) == cin.network_info[k].network
            prefix4 == 2 + n + (IF allow_project_net_traffic THEN n ELSE 0)
        IN  /\ \A list \in {cout.v4, cout.v6} :
                 /\ Len(list) >= 3
                 /\ list[1] = <<"-m", "state", "--state", "INVALID", "-j", "DROP">>
                 /\ list[2] = <<"-m", "state", "--state", "ESTABLISHED,RELATED",
                                "-j", "ACCEPT">>
                 /\ RulesAfterPrefix(list)
                 /\ ~IsRuleDirective(Last(list))
            /\ Len(cout.v4) = prefix4 + Len(StoredV4) + 1
            /\ \A k \in 1..n :
                 cout.v4[2 + k] = <<"-s", net(k).gateway, "-p", "udp",
                                    "--sport", "67", "--dport", "68",
                                    "-j", "ACCEPT">>
            /\ allow_project_net_traffic =>
                 \A k \in 1..n :
                     cout.v4[2 + n + k] = <<"-s", net(k).cidr, "-j", "ACCEPT">>
            /\ \A k \in 1..Len(cout.v4) :
                 IsRuleDirective(cout.v4[k]) <=> (prefix4 < k /\ k < Len(cout.v4))

C6_Witness ==
    /\ cout.called
    /\ Len(cin.network_info) = 2
    /\ allow_project_net_traffic
    /\ Len(StoredV4) >= 1
    /\ Len(StoredV6) >= 1
    /\ IsRuleDirective(cout.v4[7])
    /\ cout.v4[6] = <<"-s", "10.0.2.0/24", "-j", "ACCEPT">>

PortDirective(r, d, version) ==
    r.protocol \in {"tcp", "udp"} =>
        IF r.from_port = r.to_port
        THEN d = <<"-p", r.protocol, "-s", r.cidr,
                   "--dport", ToString(r.from_port), "-j", "ACCEPT">>
        ELSE d = <<"-p", r.protocol, "-s", r.cidr, "-m", "multiport", "--dports",
                   ToString(r.from_port) \o ":" \o ToString(r.to_port),
                   "-j", "ACCEPT">>

\* C7: for every tcp or udp rule with a CIDR, the directive is a single-port
\* match (--dport) when from_port = to_port and a ranged multiport match
\* from_port:to_port otherwise; equal ports never yield a ranged match.
C7_SinglePort == cout.called => ForEachCompiled(PortDirective)

C7_Witness ==
    /\ cout.called
    /\ cin.sg_rules = <<<<[protocol |-> "tcp", cidr |-> CidrV4,
                           from_port |-> 8, to_port |-> 8]>>>>
    /\ RuleDirectives(cout.v4) =
           <<<<"-p", "tcp", "-s", CidrV4, "--dport", "8", "-j", "ACCEPT">>>>

IcmpDirective(r, d, version) ==
    r.protocol = "icmp" =>
        LET proto == IF version = 6 THEN "icmpv6" ELSE "icmp"
            match == IF version = 6 THEN <<"-m", "icmp6", "--icmpv6-type">>
                     ELSE <<"-m", "icmp", "--icmp-type">>
            head == <<"-p", proto, "-s", r.cidr>>
            tail == <<"-j", "ACCEPT">>
        IN  IF r.from_port = -1
            THEN d = head \o tail
            ELSE IF r.to_port = -1
            THEN d = head \o match \o <<ToString(r.from_port)>> \o tail
            ELSE d = head \o match
                       \o <<ToString(r.from_port) \o "/" \o ToString(r.to_port)>>
                       \o tail

\* C8: for every icmp rule with a CIDR, the directive has neither a type nor
\* a code qualifier when from_port = -1 (whatever to_port is), the type alone
\* when from_port # -1 and to_port = -1, type/code when both differ from -1;
\* on the v6 path the protocol and match names are the icmpv6 ones.
C8_IcmpQualifiers == cout.called => ForEachCompiled(IcmpDirective)

C8_Witness ==
    /\ cout.called
    /\ cin.sg_rules = <<<<[protocol |-> "icmp", cidr |-> CidrV6,
                           from_port |-> -1, to_port |-> 8]>>>>
    /\ RuleDirectives(cout.v6) =
           <<<<"-p", "icmpv6", "-s", CidrV6, "-j", "ACCEPT">>>>

OwnDirective(r, d, version) ==
    /\ d[2] = (IF version = 6 /\ r.protocol = "icmp" THEN "icmpv6" ELSE r.protocol)
    /\ d[3] = "-s"
    /\ d[4] = r.cidr
    /\ SubSeq(d, Len(d) - 1, Len(d)) = <<"-j", "ACCEPT">>

\* C9: a rule without a CIDR contributes no directive to either list; each
\* rule with a CIDR contributes exactly one ACCEPT directive to exactly one
\* list (v4 when its CIDR is IPv4, v6 otherwise); within each list the rule
\* directives keep the stored order (group order, then rule order).
C9_OneDirectivePerCidrRule ==
    cout.called =>
        /\ ForEachCompiled(OwnDirective)
        /\ \A d \in {cout.v4[k] : k \in DOMAIN cout.v4} :
               IsRuleDirective(d) => d[4] = CidrV4
        /\ \A d \in {cout.v6[k] : k \in DOMAIN cout.v6} :
               IsRuleDirective(d) => d[4] # CidrV4

C9_Witness ==
    /\ cout.called
    /\ Len(cin.sg_rules) = 2
    /\ Len(cin.sg_rules[1]) = 2
    /\ Len(cin.sg_rules[2]) = 1
    /\ IsV4Rule(cin.sg_rules[1][1])
    /\ IsV6Rule(cin.sg_rules[1][2])
    /\ IsV4Rule(cin.sg_rules[2][1])
    /\ cin.sg_rules[1][1] # cin.sg_rules[2][1]
    /\ Len(RuleDirectives(cout.v4)) = 2
    /\ Len(RuleDirectives(cout.v6)) = 1

-----------------------------------------------------------------------------
(* Properties of the Chain-Tree backend *)

Families == {"ipv4", "ipv6"}

\* The versions of group g's rule set that the chain of instance i holds a
\* directive of: a rule of group g in version v matches port GroupPort(g, v).
VersionsIn(table, i, g) ==
    LET rules == ChainRules(table, _instance_chain_name(i))
    IN  {v \in 0..MaxChanges :
            \E k \in DOMAIN rules :
                /\ IsRuleDirective(rules[k])
                /\ rules[k][5] = "--dport"
                /\ rules[k][6] = ToString(GroupPort(g, v))}

Staging(t) == th[t].op = "refresh" /\ th[t].pc \in {"netinfo", "rules"}
AboutToCommit(t) == th[t].op = "refresh" /\ th[t].pc = "apply"

\* C1: with refresh_security_group_rules run by two concurrent callers, no
\* committed chain-table state holds, for a tracked instance, a chain that
\* mixes directives compiled from the old rule set of a group with
\* directives compiled from its new rule set.
C1_NoMixedChain ==
    \A fam \in Families, i \in instances, g \in GroupIds :
        Cardinality(VersionsIn(committed[fam], i, g)) <= 1

\* A commit made while the other caller re-stages instance 2 published the
\* chain of instance 1 compiled from the new rules of group 1.
C1_Witness ==
    /\ sg_version[1] = 1
    /\ VersionsIn(committed.ipv4, 1, 1) = {1}
    /\ ~Complete(committed.ipv4, 2)
    /\ \E t \in Threads : Staging(t) /\ th[t].inst = 2

\* C2: the 'iptables' lock is held over the whole stage-and-commit sequence
\* of refresh_security_group_rules: no caller is re-staging instance chains
\* while another caller has staged and not yet committed.
C2_LockHeldUntilCommit ==
    \A a, b \in Threads :
        (a # b /\ AboutToCommit(a)) => ~Staging(b)

\* C3: every committed chain-table state has, for each instance that was
\* tracked and committed before and is still tracked, a whole directive
\* chain: present, not empty and ending in the jump to the fallback chain.
C3_CommittedChainsComplete ==
    \A i \in published \cap instances : Complete(committed.ipv4, i)

\* The jump rules of the 'local' chain into the chain of instance i.
JumpsInto(table, i) ==
    {r \in {table.rules[k] : k \in DOMAIN table.rules} :
        r.chain = "local" /\ JumpsTo(r.rule, _instance_chain_name(i))}

\* The DHCP servers the chain of instance i accepts.
DhcpServers(table, i) ==
    LET rules == ChainRules(table, _instance_chain_name(i))
    IN  {rules[k][2] : k \in {j \in DOMAIN rules :
                                  /\ Len(rules[j]) = 10
                                  /\ rules[j][1] = "-s"
                                  /\ rules[j][6] = "67"}}

\* C4: after refresh_security_group_rules has run over two or more tracked
\* instances, every tracked instance's chain and jump rules are computed
\* from its own network attachments, never from another instance's.
C4_OwnAttachments ==
    \A t \in Threads :
        (/\ AboutToCommit(t)
         /\ \A u \in Threads \ {t} : th[u].pc = "idle"
         /\ Cardinality(instances) >= 2)
        => \A i \in instances :
               LET own == get_network_info(i)[1]
               IN  /\ {r.rule[2] : r \in JumpsInto(iptables.ipv4, i)}
                          = {own.mapping.ips[k] : k \in DOMAIN own.mapping.ips}
                   /\ DhcpServers(iptables.ipv4, i) = {own.network.gateway}

\* C10: unfilter_instance on an instance that is not tracked leaves the
\* Tracked Instance Set and the staged and committed tables unchanged and
\* issues no commit; on a tracked instance it removes the instance from the
\* set, removes its chain and commits exactly once.
C10_UnfilterIdempotent ==
    [][/\ \A t \in Threads, i \in InstanceIds :
            unfilter_instance(t, i) =>
                IF i \in instances
                THEN /\ instances' = instances \ {i}
                     /\ \A fam \in Families :
                            _instance_chain_name(i) \notin iptables'[fam].chains
                     /\ committed' = committed
                     /\ th'[t].pc = "apply"
                ELSE /\ instances' = instances
                     /\ iptables' = iptables
                     /\ committed' = committed
                     /\ th'[t].pc = "idle"
       /\ \A t \in Threads :
            (th[t].op = "unfilter" /\ th[t].pc = "apply" /\ th'[t] # th[t])
                => /\ committed' = iptables
                   /\ iptables' = iptables
                   /\ th'[t].pc = "idle"]_vars

\* An unfilter_instance call found instance 1 untracked after commits had
\* been made, and returned.
C10_Witness ==
    /\ \E t \in Threads :
           th[t].pc = "idle" /\ th[t].op = "unfilter" /\ th[t].inst = 1
    /\ instances = {}
    /\ ncalls = 3
    /\ "sg-fallback" \in committed.ipv4.chains
    /\ _instance_chain_name(1) \notin committed.ipv4.chains
    /\ iptables = committed

-----------------------------------------------------------------------------
(* Properties of prepare_instance_filter on the Chain-Tree backend *)

\* One jump per address of the attachments, in their order, each matching
\* destination = that address and jumping to the chain of instance i.
AddressJumps(network_info, i) ==
    LET ips == AllIps(network_info, "ips")
    IN  [k \in 1..Len(ips) |->
            <<"-d", ips[k], "-j", "$" \o _instance_chain_name(i)>>]

\* The rule sets the data store can return for the groups of instance i.
StoredRuleSets(i) ==
    LET groups == security_group_get_by_instance(i)
    IN  {[k \in 1..Len(groups) |-> GroupRulesAt(groups[k], vs[groups[k]])] :
            vs \in [GroupIds -> 0..MaxChanges]}

-----------------------------------------------------------------------------
(* A prepare_instance_filter that fails while staging *)

\* Caller t is back from a prepare_instance_filter(i) that raised, and no
\* other caller is staging.
PrepareRaised(t, i) ==
    /\ th[t].pc = "idle"
    /\ th[t].op = "prepare_raised"
    /\ th[t].inst = i
    /\ \A u \in Threads \ {t} : th[u].pc \in {"idle", "apply"}

\* The chain of instance i is staged in part: the chain or jumps to it are
\* there, and the chain is not whole.
Partial(table, i) ==
    /\ \/ _instance_chain_name(i) \in table.chains
       \/ JumpsInto(table, i) # {}
    /\ ~Complete(table, i)

\* C18: after a prepare_instance_filter(instance) that failed before its
\* commit, the instance is not tracked with a partly staged chain, and no
\* commit has published that partial chain.
C18_FailedPrepareLeavesNoPartialChain ==
    \A t \in Threads, i \in InstanceIds :
        PrepareRaised(t, i) =>
            /\ ~(i \in instances /\ Partial(iptables.ipv4, i))
            /\ ~Partial(committed.ipv4, i)

-----------------------------------------------------------------------------
(* refresh_security_group_rules as a whole-chain replace *)

\* The data store has not changed since the instances were prepared.
StoreUnchanged == \A g \in GroupIds : sg_version[g] = 0

\* The jump rules of 'local' into the chain of instance i, in order.
JumpRules(table, i) ==
    SelectSeq(ChainRules(table, "local"),
              LAMBDA r : JumpsTo(r, _instance_chain_name(i)))

\* C20: after refresh_security_group_rules has completed on an unchanged
\* data store, the staged table holds for each tracked instance exactly the
\* current Rule Compiler output in its chain and exactly one jump rule per
\* address of the instance in 'local'.
C20_RefreshNoDrift ==
    \A t \in Threads :
        (/\ AboutToCommit(t)
         /\ \A u \in Threads \ {t} : th[u].pc = "idle"
         /\ StoreUnchanged)
        => \A i \in instances :
               LET own == get_network_info(i)
                   groups == security_group_get_by_instance(i)
                   sg_rules == [k \in 1..Len(groups) |->
                                   GroupRulesAt(groups[k], 0)]
               IN  /\ ChainRules(iptables.ipv4, _instance_chain_name(i))
                          = instance_rules(own, sg_rules).v4
                   /\ JumpRules(iptables.ipv4, i) = AddressJumps(own, i)

-----------------------------------------------------------------------------
(* Properties of the Filter-Graph backend *)

\* The names of the per-NIC filter objects of instance i.
NicFilterNames(i) ==
    LET network_info == get_network_info(i)
    IN  {_instance_filter_name(i, nic_id(network_info[k].mapping.mac)) :
            k \in DOMAIN network_info}

\* Caller t is back from the call op on instance (or group) i.
Returned(t, op, i) ==
    /\ th[t].pc = "idle"
    /\ th[t].op = op
    /\ th[t].inst = i
    /\ call[t].outcome = "returned"

\* C12: after unfilter_instance(instance) has returned, and with no other
\* caller setting the instance up, the per-NIC filter objects and the
\* per-instance security-group object of the instance no longer exist, so
\* instance_filter_exists(instance) would return false.
C12_UnfilterTearsDown ==
    \A t \in Threads, i \in FilterInstanceIds :
        (/\ Returned(t, "nwfilter_unfilter_instance", i)
         /\ \A u \in Threads \ {t} :
                ~(/\ th[u].inst = i
                  /\ th[u].op \in {"setup_basic_filtering",
                                   "prepare_instance_filter"}))
        => /\ NicFilterNames(i) \cap DOMAIN filters = {}
           /\ instance_secgroup_filter_name(i) \notin DOMAIN filters
           /\ lookup_filters(i, get_network_info(i)) = "False"

\* The static filter objects, by name.
StaticNames == {StaticFilters[k].name : k \in DOMAIN StaticFilters}

AllStaticDefined ==
    \A k \in DOMAIN StaticFilters :
        /\ StaticFilters[k].name \in DOMAIN filters
        /\ filters[StaticFilters[k].name] = StaticFilters[k]

\* The names a call is still to define.
Pending(thread) ==
    {thread.todo[k].xml.name :
        k \in {j \in DOMAIN thread.todo : thread.todo[j].kind = "define"}}

\* C13: static_filters_configured is true only if every static filter
\* object has been defined; a setup_basic_filtering call made once it is true
\* defines no static object; a rejected definition leaves the guard as it
\* was, and a call that finds it false runs the whole bootstrap.
C13_StaticBootstrapGuard ==
    [][/\ static_filters_configured' => AllStaticDefined'
       /\ \A t \in Threads, i \in FilterInstanceIds :
            nwfilter_setup_basic_filtering(t, i) =>
                IF static_filters_configured
                THEN Pending(th'[t]) \cap StaticNames = {}
                ELSE StaticNames \subseteq Pending(th'[t])
       /\ \A t \in Threads :
            call'[t].rejected > call[t].rejected =>
                static_filters_configured' = static_filters_configured]_vars

\* A bootstrap failed at a rejected definition and left the guard false;
\* the next setup_basic_filtering call ran the bootstrap again and set it.
C13_Witness ==
    /\ static_filters_configured
    /\ \E t, u \in Threads :
           /\ call[t].outcome = "raised"
           /\ th[t].op = "setup_basic_filtering"
           /\ call[t].last \in StaticNames
           /\ Returned(u, "setup_basic_filtering", 1)
           /\ call[u].ndef = Len(StaticFilters) + 1

\* The NIC filter objects of instance i that exist reference a per-instance
\* security-group object that exists.
NicFiltersResolve(i) ==
    \A n \in NicFilterNames(i) \cap DOMAIN filters :
        \E k \in DOMAIN filters[n].refs :
            /\ filters[n].refs[k] = instance_secgroup_filter_name(i)
            /\ filters[n].refs[k] \in DOMAIN filters

\* C14: after a successful prepare_instance_filter(instance), for any number
\* of attached groups including none, the object
\* 'nova-instance-<name>-secgroup' is defined with the static base objects
\* followed by one 'nova-secgroup-<id>' per attached group as children, and
\* every NIC filter of the instance references it.
C14_SecgroupObjectDefined ==
    \A t \in Threads, i \in FilterInstanceIds :
        Returned(t, "prepare_instance_filter", i) =>
            LET groups == security_group_get_by_instance(i)
                name == instance_secgroup_filter_name(i)
            IN  /\ name \in DOMAIN filters
                /\ filters[name].refs
                       = base_children(get_network_info(i))
                           \o [k \in 1..Len(groups) |->
                                  nova_secgroup_name(groups[k])]
                /\ NicFilterNames(i) \subseteq DOMAIN filters
                /\ NicFiltersResolve(i)

\* C15: refresh_security_group_rules(group_id) issues exactly one
\* definition, of 'nova-secgroup-<group_id>', and leaves every other filter
\* object and static_filters_configured unchanged.
C15_RefreshDefinesOneObject ==
    [][\A t \in Threads :
          /\ \A g \in GroupIds :
                 nwfilter_refresh_security_group_rules(t, g) =>
                     /\ filters' = filters
                     /\ static_filters_configured' = static_filters_configured
                     /\ call'[t].ndef = 0
                     /\ th'[t].pc = "define"
          /\ (/\ th[t].op = "refresh_security_group_rules"
              /\ th[t].pc = "define"
              /\ th'[t] # th[t])
             => LET name == nova_secgroup_name(th[t].inst)
                IN  /\ th'[t].pc = "idle"
                    /\ call'[t].ndef = 1
                    /\ call'[t].last = name
                    /\ DOMAIN filters' \subseteq DOMAIN filters \cup {name}
                    /\ \A n \in DOMAIN filters \ {name} :
                           n \in DOMAIN filters' /\ filters'[n] = filters[n]
                    /\ static_filters_configured'
                           = static_filters_configured]_vars

\* refresh_security_group_rules(1) has returned on a libvirt that holds the
\* per-instance objects of an earlier prepare_instance_filter.
C15_Witness ==
    \E t, u \in Threads :
        /\ Returned(t, "refresh_security_group_rules", 1)
        /\ Returned(u, "prepare_instance_filter", 2)
        /\ call[t].ndef = 1
        /\ nova_secgroup_name(1) \in DOMAIN filters
        /\ instance_secgroup_filter_name(2) \in DOMAIN filters

\* C16: instance_filter_exists(instance), on either driver, returns true if
\* and only if a filter object exists under the name of every NIC of the
\* instance, false otherwise, never an exception, and changes no filter
\* object.
C16_ExistsIffEveryNic ==
    [][\A t \in Threads, i \in FilterInstanceIds :
          (\/ nwfilter_instance_filter_exists(t, i)
           \/ instance_filter_exists(t, i))
          => /\ call'[t].outcome
                    = IF NicFilterNames(i) \subseteq DOMAIN filters
                      THEN "True" ELSE "False"
             /\ th'[t].pc = "idle"
             /\ filters' = filters
             /\ static_filters_configured' = static_filters_configured]_vars

\* instance_filter_exists answered False for instance 0, whose first NIC
\* has its filter and whose second has none.
C16_Witness ==
    \E t \in Threads :
        /\ th[t].op = "instance_filter_exists"
        /\ th[t].inst = 0
        /\ call[t].outcome = "False"
        /\ Cardinality(NicFilterNames(0) \cap DOMAIN filters) = 1

\* C17: a definition that libvirt rejects during setup_basic_filtering,
\* prepare_instance_filter or refresh_security_group_rules ends the call with
\* the exception, and the call makes no definition after it.
C17_RejectionReachesCaller ==
    \A t \in Threads :
        call[t].rejected > 0 =>
            /\ call[t].outcome = "raised"
            /\ th[t].pc = "idle"
            /\ th[t].todo = <<>>
            /\ call[t].rejected = 1

\* prepare_instance_filter of instance 2 ended with the exception of its
\* third definition; the per-NIC filter it had still to define is not there.
C17_Witness ==
    \E t \in Threads :
        /\ th[t].op = "prepare_instance_filter"
        /\ th[t].inst = 2
        /\ call[t].outcome = "raised"
        /\ call[t].ndef = 3
        /\ NicFilterNames(2) \cap DOMAIN filters = {}

-----------------------------------------------------------------------------
(* The no-op operations *)

\* C19: apply_instance_filter of both drivers and
\* refresh_security_group_members of the iptables driver change neither the
\* Tracked Instance Set, the staged and committed tables, the filter objects
\* nor the static-bootstrap guard, and issue no commit and no definition.
C19_NoOps ==
    [][\A t \in Threads, i \in InstanceIds :
          (\/ apply_instance_filter(t, i)
           \/ nwfilter_apply_instance_filter(t, i)
           \/ refresh_security_group_members(t, i))
          => /\ UNCHANGED <<instances, iptables, committed, lock, filters,
                            static_filters_configured>>
             /\ th'[t].pc = "idle"
             /\ call'[t].ndef = 0
             /\ call'[t].outcome = "returned"]_vars

\* apply_instance_filter has returned while another caller's unfilter_instance
\* has staged a removal and not committed it, on a libvirt that holds
\* filters.
C19_Witness ==
    \E t, u \in Threads :
        /\ Returned(t, "apply_instance_filter", 1)
        /\ th[u].pc = "apply"
        /\ iptables # committed
        /\ static_filters_configured

-----------------------------------------------------------------------------
(* The two encoders compared, over SpecEncoders *)

\* The <rule> elements of the group's filter, once it is defined.
GroupElements == filters[nova_secgroup_name(1)].rules

\* A <rule> element that holds no protocol element: it has the three
\* attributes of <rule> and nothing else.
IsBareElement(e) == Len(e) = 3

HasAttribute(e, a) == \E k \in DOMAIN e : e[k] = a

\* C21: a security-group rule without a CIDR contributes no <rule> element
\* to the generated 'nova-secgroup-<id>' filter, in particular no accept
\* rule without a match predicate: the filter holds one element per rule
\* that has a CIDR.
C21_NoCidrRuleIsNoOp ==
    nova_secgroup_name(1) \in DOMAIN filters =>
        /\ Len(GroupElements) = Len(SelectSeq(StoredRules, HasCidr))
        /\ \A k \in DOMAIN GroupElements : ~IsBareElement(GroupElements[k])

\* The icmp type word of a directive, with and without a code.
IcmpTypeWords == {"--icmp-type", "--icmpv6-type"}

DirectiveHasType(d) == \E k \in DOMAIN d : d[k] \in IcmpTypeWords

DirectiveHasCode(d, rule) ==
    \E k \in 1..(Len(d) - 1) :
        /\ d[k] \in IcmpTypeWords
        /\ d[k + 1] = ToString(rule.from_port) \o "/" \o ToString(rule.to_port)

\* The <rule> elements of the rules that have a CIDR, in the filter's order.
CidrElements == SelectSeq(GroupElements, LAMBDA e : ~IsBareElement(e))
CidrElementsOf(version) ==
    SelectSeq(CidrElements,
              LAMBDA e : e[6] = (IF version = 6 THEN "::" ELSE "0.0.0.0"))

\* C22: for every rule with a CIDR, the Filter-Graph element carries a type
\* qualifier exactly when the Chain-Tree directive does and a code qualifier
\* exactly when the Chain-Tree directive does, and the elements are in the
\* stored order of the directives.
C22_SameIcmpEncoding ==
    (cout.called /\ nova_secgroup_name(1) \in DOMAIN filters) =>
        /\ SameCounts
        /\ \A version \in {4, 6} :
              LET stored == IF version = 4 THEN StoredV4 ELSE StoredV6
                  directives == RuleDirectives(IF version = 4 THEN cout.v4
                                               ELSE cout.v6)
                  elements == CidrElementsOf(version)
              IN  /\ Len(elements) = Len(stored)
                  /\ \A k \in DOMAIN stored :
                        stored[k].protocol = "icmp" =>
                            /\ HasAttribute(elements[k], "type")
                                   <=> DirectiveHasType(directives[k])
                            /\ HasAttribute(elements[k], "code")
                                   <=> DirectiveHasCode(directives[k],
                                                        stored[k])

-----------------------------------------------------------------------------
(* Definitions handed to the thread pool, over SpecFilterGraph *)

\* Caller t is suspended in tpool.execute, its definition pending.
DefinitionPending(t) == th[t].pc = "define"

\* What a caller that is ready can do next: a suspended one can resume from
\* its own definition, an idle one can make a call.
CanStep(u) ==
    /\ DefinitionPending(u) => ENABLED _define_filter(u)
    /\ (th[u].pc = "idle" /\ ncalls < MaxFilterCalls) =>
           /\ ENABLED nwfilter_instance_filter_exists(u, 1)
           /\ ENABLED nwfilter_refresh_security_group_rules(u, 1)

\* C23: while a caller's definition is pending, every other caller that is
\* ready can take its step; the pending caller resumes only by the completion
\* of its own definition, with that definition's outcome, and no other
\* caller's step moves it or touches its outcome.
C23_DefinitionsOffScheduler ==
    /\ [](\A t \in Threads :
             DefinitionPending(t) => \A u \in Threads \ {t} : CanStep(u))
    /\ [][\A t \in Threads :
             (DefinitionPending(t) /\ (th'[t] # th[t] \/ call'[t] # call[t]))
             => LET name == next_xml(t).name
                IN  /\ \A u \in Threads \ {t} :
                          th'[u] = th[u] /\ call'[u] = call[u]
                    /\ call'[t].ndef = call[t].ndef + 1
                    /\ call'[t].last = name
                    /\ \/ /\ call'[t].outcome \in {"running", "returned"}
                          /\ call'[t].rejected = call[t].rejected
                          /\ name \in DOMAIN filters'
                          /\ filters'[name] = next_xml(t)
                       \/ /\ call'[t].outcome = "raised"
                          /\ call'[t].rejected = call[t].rejected + 1
                          /\ filters' = filters]_vars

\* Both callers have a definition pending at once, and the one that was
\* suspended second has already completed a definition of its own.
C23_Witness ==
    \E t, u \in Threads :
        /\ t # u
        /\ DefinitionPending(t)
        /\ DefinitionPending(u)
        /\ call[t].ndef = 0
        /\ call[u].ndef > 0

-----------------------------------------------------------------------------
(* setup_basic_filtering on the Filter-Graph backend, over SpecFilterGraph *)

\* The name of the filter of the k-th NIC of instance i: the instance name
\* and the MAC address without its colons.
ExpectedNicName(i, k) ==
    "nova-instance-instance-" \o ToString(i) \o "-02163e00000"
        \o ToString(IF i = 0 THEN MaxInstances + k ELSE i)

ExpectedBase(i) == IF i = MaxInstances THEN "nova-vpn" ELSE "nova-base"

\* The definitions caller t has still to make, in order.
PendingXmls(thread) ==
    LET items == SelectSeq(thread.todo, LAMBDA item : item.kind = "define")
    IN  [k \in DOMAIN items |-> items[k].xml]

\* C24: setup_basic_filtering(instance) first ensures the static filters
\* and then defines, per NIC, a filter named from the instance name and the
\* NIC's MAC whose only child is 'nova-vpn' for an instance of the VPN image
\* and 'nova-base' otherwise; it references no security-group object.
C24_BasicFilteringPerNic ==
    [][\A t \in Threads, i \in FilterInstanceIds :
          /\ nwfilter_setup_basic_filtering(t, i) =>
                LET xmls == PendingXmls(th'[t])
                    nstatic == IF static_filters_configured THEN 0
                               ELSE Len(StaticFilters)
                    nnics == Len(get_network_info(i))
                IN  /\ Len(xmls) = nstatic + nnics
                    /\ \A k \in 1..nstatic : xmls[k] = StaticFilters[k]
                    /\ \A k \in 1..nnics :
                          /\ xmls[nstatic + k].name = ExpectedNicName(i, k)
                          /\ xmls[nstatic + k].refs = <<ExpectedBase(i)>>
                          /\ xmls[nstatic + k].rules = <<>>
          /\ (/\ th[t].op = "setup_basic_filtering"
              /\ th[t].inst = i
              /\ th[t].pc = "define"
              /\ call'[t].ndef = call[t].ndef + 1
              /\ call'[t].rejected = call[t].rejected)
             => LET xml == Head(PendingXmls(th[t]))
                IN  /\ filters'[xml.name] = xml
                    /\ PendingXmls(th'[t]) = Tail(PendingXmls(th[t]))
                    /\ xml.name \notin StaticNames =>
                          /\ AllStaticDefined'
                          /\ static_filters_configured'
                    /\ call'[t].outcome = "returned" =>
                          filters'[ExpectedNicName(i, Len(get_network_info(i)))]
                              .refs = <<ExpectedBase(i)>>]_vars

\* setup_basic_filtering of instance 0 (two NICs) and of the VPN instance
\* have both returned, the first having run the static bootstrap.
C24_Witness ==
    \E t, u \in Threads :
        /\ Returned(t, "setup_basic_filtering", 0)
        /\ call[t].ndef = Len(StaticFilters) + 2
        /\ Returned(u, "setup_basic_filtering", MaxInstances)
        /\ call[u].ndef = 1
        /\ filters[ExpectedNicName(0, 2)].refs = <<"nova-base">>
        /\ filters[ExpectedNicName(MaxInstances, 1)].refs = <<"nova-vpn">>

-----------------------------------------------------------------------------
(* The shared fallback chain, over Spec *)

FallbackChainOf(table) ==
    /\ "sg-fallback" \in table.chains
    /\ ChainRules(table, "sg-fallback") = <<<<"-j", "DROP">>>>

\* C25: in every state reachable after construction, the chain
\* 'sg-fallback' exists in the v4 and in the v6 table and DROP is its only
\* rule; no step removes it or stages a rule in it.
C25_FallbackChainKept ==
    /\ FallbackChainOf(iptables.ipv4)
    /\ FallbackChainOf(iptables.ipv6)

\* Instances have been prepared, refreshed and unfiltered again, leaving
\* the fallback chain as the only chain added to the tables.
C25_Witness ==
    /\ instances = {}
    /\ ncalls >= 3
    /\ \A t \in Threads : th[t].pc = "idle"
    /\ \E t \in Threads : th[t].op = "unfilter"
    /\ iptables.ipv4.chains = {"local", "sg-fallback"}
    /\ FallbackChainOf(iptables.ipv4)
    /\ FallbackChainOf(committed.ipv6)

-----------------------------------------------------------------------------
(* The Tracked Instance Set as the ledger of the staged chains, over Spec *)

AllCallsCompleted == \A t \in Threads : th[t].pc = "idle"

HasInstanceChain(table, i) == _instance_chain_name(i) \in table.chains

\* C26: once every prepare_instance_filter, unfilter_instance and
\* refresh_security_group_rules call has completed, the staged v4 table
\* holds the chain of an instance if and only if the instance is tracked; a
\* refresh that overlaps an unfilter does not re-create the chain.
C26_ChainsMatchTrackedSet ==
    AllCallsCompleted =>
        \A i \in InstanceIds :
            HasInstanceChain(iptables.ipv4, i) <=> i \in instances

-----------------------------------------------------------------------------
(* prepare_instance_filter undone by unfilter_instance, over SpecRoundTrip *)

NothingStaged(ipt, i) ==
    \A table \in {ipt.ipv4, ipt.ipv6} :
        /\ ~HasInstanceChain(table, i)
        /\ \A k \in DOMAIN table.rules :
               ~JumpsTo(table.rules[k].rule, _instance_chain_name(i))

-----------------------------------------------------------------------------
(* The v6 table while use_ipv6 is off, over Spec *)

\* C28: while use_ipv6 is disabled, prepare_instance_filter,
\* unfilter_instance and refresh_security_group_rules stage nothing in the v6
\* table, also for instances with v6 addresses and groups with v6 rules: the
\* staged v6 table holds the fallback chain of the construction and nothing
\* else, and no commit publishes anything else.
C28_V6TableUntouched ==
    ~use_ipv6 =>
        /\ iptables.ipv6 = InitialTables.ipv6
        /\ committed.ipv6 \in {EmptyTable, InitialTables.ipv6}

\* With use_ipv6 off, a refresh has re-staged the whole chain of instance 1,
\* which has a v6 address and is in a group with a v6 rule, and another
\* caller has unfiltered instance 2.
C28_Witness ==
    /\ ~use_ipv6
    /\ 1 \in instances
    /\ Complete(iptables.ipv4, 1)
    /\ \E t, u \in Threads :
           /\ th[t].op = "refresh"
           /\ th[t].pc = "apply"
           /\ th[u].op = "unfilter"
           /\ th[u].inst = 2
    /\ \E k \in DOMAIN security_group_rule_get_by_security_group(1) :
           security_group_rule_get_by_security_group(1)[k].cidr = CidrV6
    /\ get_network_info(1)[1].mapping.ip6s # <<>>
    /\ iptables.ipv6.chains = {"local", "sg-fallback"}

====
